---- MODULE Spec2Model ----
(***************************************************************************)
(* The BLKS command processor (contracts/solana/src/processor.rs) as a     *)
(* state machine over storage accounts.  One action per instruction; each  *)
(* action runs the dispatcher Processor::process on the current accounts   *)
(* and commits the handler's writes only when the handler returns Ok (the  *)
(* ledger discards the account changes of a failed instruction).           *)
(*                                                                         *)
(* Record buffers are kept as the last record encoded into them, tagged    *)
(* with the struct that was encoded ("profile", "post", "community") or    *)
(* "zero" for an all-zero buffer.  Decoding a zero buffer gives the        *)
(* all-default struct of any of the three types; decoding a buffer that    *)
(* holds a non-zero encoding of another struct is rejected.                *)
(***************************************************************************)
EXTENDS Integers, Sequences, FiniteSets, TLC

(***************************************************************************)
(* Bounds of the exploration.                                              *)
(***************************************************************************)
MaxSteps == 4
MaxDays == 1

(***************************************************************************)
(* Program constants.                                                      *)
(***************************************************************************)
PROFILE_SPACE == 512
POST_SPACE == 2048
COMMENT_SPACE == 1024
COMMUNITY_SPACE == 2048
max_len == 128
seconds_in_day == 86400
INITIAL_UCR == 100
PUBKEY_BYTES == 32

(***************************************************************************)
(* Keys.  Wallets sign; PdaSlots are the profile addresses derived from a  *)
(* wallet and a username; KeypairSlots are addresses with a private key,   *)
(* which clients pass as post, comment and community accounts.             *)
(***************************************************************************)
Wallets == {"alice", "bob"}
PdaSlots == {"pa", "pb"}
KeypairSlots == {"k1", "k2"}
Slots == PdaSlots \cup KeypairSlots
ProgramId == "program"
SystemProgramId == "system"
DefaultPubkey == "11111111"

\* A string is kept as its leading text t followed by n filler bytes.
S(t) == [t |-> t, n |-> 0]
Pad(t, n) == [t |-> t, n |-> n]
Empty == S(<<>>)
StrLen(s) == Len(s.t) + s.n

UserA == Pad(<<"a">>, 29)
UserB == S(<<"b">>)
Usernames == {UserA, UserB}

\* Pubkey::find_program_address(&[user, b"profile", username], program_id)
find_program_address(user, username) ==
    IF user = "alice" /\ username = UserA THEN "pa"
    ELSE IF user = "bob" /\ username = UserB THEN "pb"
    ELSE "off-curve"

(***************************************************************************)
(* state.rs: the three record types and PostRating.                        *)
(***************************************************************************)
RatingNames == <<"None", "Bronze", "Silver", "Gold", "Platinum", "Diamond", "Ace", "Conqueror">>

\* the tiers with strict comparisons
from_likes_strict(likes) ==
    IF likes > 1000000 THEN "Conqueror"
    ELSE IF likes > 1000 THEN "Ace"
    ELSE IF likes > 500 THEN "Diamond"
    ELSE IF likes > 150 THEN "Platinum"
    ELSE IF likes > 50 THEN "Gold"
    ELSE IF likes > 20 THEN "Silver"
    ELSE IF likes > 5 THEN "Bronze"
    ELSE "None"

from_likes(likes) ==
    IF likes >= 1000000 THEN "Conqueror"
    ELSE IF likes >= 1000 THEN "Ace"
    ELSE IF likes >= 500 THEN "Diamond"
    ELSE IF likes >= 150 THEN "Platinum"
    ELSE IF likes >= 50 THEN "Gold"
    ELSE IF likes >= 20 THEN "Silver"
    ELSE IF likes >= 5 THEN "Bronze"
    ELSE "None"

ZeroProfile ==
    [is_initialized |-> FALSE, owner |-> DefaultPubkey, username |-> Empty, bio |-> Empty,
     profile_image |-> Empty, cover_image |-> Empty, created_at |-> 0,
     followers_count |-> 0, following_count |-> 0, user_credit_rating |-> 0,
     posts_count |-> 0, last_post_timestamp |-> 0, daily_post_count |-> 0,
     is_verified |-> FALSE]

ZeroPost ==
    [is_initialized |-> FALSE, id |-> 0, author |-> DefaultPubkey, content |-> Empty,
     timestamp |-> 0, likes |-> 0, comments |-> 0, mirrors |-> 0, images |-> <<>>,
     rating |-> "None", in_kill_zone |-> FALSE]

ZeroCommunity ==
    [is_initialized |-> FALSE, id |-> 0, name |-> Empty, description |-> Empty,
     avatar |-> Empty, owner |-> DefaultPubkey, member_count |-> 0, rules |-> <<>>,
     is_sb_community |-> FALSE]

ZeroData == [kind |-> "zero"]

\* Borsh lengths: bool 1, u64/i64 8, Pubkey 32, String 4 + bytes, Vec 4 + items, enum 1.
RECURSIVE VecLen(_)
VecLen(v) == IF v = <<>> THEN 0 ELSE 4 + StrLen(Head(v)) + VecLen(Tail(v))

ProfileLen(p) ==
    1 + PUBKEY_BYTES + (4 + StrLen(p.username)) + (4 + StrLen(p.bio)) + (4 + StrLen(p.profile_image))
      + (4 + StrLen(p.cover_image)) + 8 + 8 + 8 + 8 + 8 + 8 + 8 + 1

PostLen(p) ==
    1 + 8 + PUBKEY_BYTES + (4 + StrLen(p.content)) + 8 + 8 + 8 + 8 + (4 + VecLen(p.images)) + 1 + 1

CommunityLen(c) ==
    1 + 8 + (4 + StrLen(c.name)) + (4 + StrLen(c.description)) + (4 + StrLen(c.avatar))
      + PUBKEY_BYTES + 8 + (4 + VecLen(c.rules)) + 1

\* try_to_vec: the encoding of an all-default struct is all zero bytes.
ProfileBytes(p) == IF p = ZeroProfile THEN ZeroData ELSE [kind |-> "profile", v |-> p]
PostBytes(p) == IF p = ZeroPost THEN ZeroData ELSE [kind |-> "post", v |-> p]
CommunityBytes(c) == IF c = ZeroCommunity THEN ZeroData ELSE [kind |-> "community", v |-> c]

\* pack_*_into_slice(record, dst): [ok, acct]; dst is left alone when the encoding does not fit.
pack_profile_into_slice(profile, acct) ==
    IF ProfileLen(profile) > acct.space
    THEN [ok |-> FALSE, acct |-> acct]
    ELSE [ok |-> TRUE, acct |-> [acct EXCEPT !.data = ProfileBytes(profile)]]

\* a pack that copies what it is given before it compares the lengths
pack_post_copy_first(post, acct) ==
    [ok |-> PostLen(post) <= acct.space, acct |-> [acct EXCEPT !.data = PostBytes(post)]]

pack_post_into_slice(post, acct) ==
    IF PostLen(post) > acct.space
    THEN [ok |-> FALSE, acct |-> acct]
    ELSE [ok |-> TRUE, acct |-> [acct EXCEPT !.data = PostBytes(post)]]

pack_community_into_slice(community, acct) ==
    IF CommunityLen(community) > acct.space
    THEN [ok |-> FALSE, acct |-> acct]
    ELSE [ok |-> TRUE, acct |-> [acct EXCEPT !.data = CommunityBytes(community)]]

\* unpack_*_from_slice(src): [ok, v]
unpack_profile_from_slice(acct) ==
    IF acct.space = 0 THEN [ok |-> FALSE, v |-> ZeroProfile]
    ELSE IF acct.data.kind = "zero" THEN [ok |-> TRUE, v |-> ZeroProfile]
    ELSE IF acct.data.kind = "profile" THEN [ok |-> TRUE, v |-> acct.data.v]
    ELSE [ok |-> FALSE, v |-> ZeroProfile]

unpack_post_from_slice(acct) ==
    IF acct.space = 0 THEN [ok |-> FALSE, v |-> ZeroPost]
    ELSE IF acct.data.kind = "zero" THEN [ok |-> TRUE, v |-> ZeroPost]
    ELSE IF acct.data.kind = "post" THEN [ok |-> TRUE, v |-> acct.data.v]
    ELSE [ok |-> FALSE, v |-> ZeroPost]

unpack_community_from_slice(acct) ==
    IF acct.space = 0 THEN [ok |-> FALSE, v |-> ZeroCommunity]
    ELSE IF acct.data.kind = "zero" THEN [ok |-> TRUE, v |-> ZeroCommunity]
    ELSE IF acct.data.kind = "community" THEN [ok |-> TRUE, v |-> acct.data.v]
    ELSE [ok |-> FALSE, v |-> ZeroCommunity]

(***************************************************************************)
(* processor.rs.  A handler takes the accounts, the ordered account keys   *)
(* of the instruction (ai), whether the first of them signed (sg), and the *)
(* environment of the call: env.now is Clock::get().unix_timestamp and     *)
(* env.cpi the number of the cross-program invocation that fails (0 when   *)
(* none does).  It returns the result, the accounts as the handler left    *)
(* them, and the log of the invocations and record writes it performed.    *)
(***************************************************************************)
Ret(res, accts, log) == [res |-> res, accounts |-> accts, log |-> log]

Cpi(op, key) == [op |-> op, key |-> key]
Wrote(op, key, v) == [op |-> op, key |-> key, v |-> v]

\* s[0..max_len] when s is longer than max_len
Trunc(s) ==
    IF StrLen(s) <= max_len THEN s
    ELSE IF Len(s.t) >= max_len THEN S(SubSeq(s.t, 1, max_len))
    ELSE Pad(s.t, max_len - Len(s.t))

\* invoke(create_account) is refused when the environment makes it fail, and for a
\* derived address, which cannot sign for its own creation in a plain invoke.
create_account_fails(key, env) == env.cpi = 1 \/ key \in PdaSlots

\* system_instruction::create_account(payer, new, lamports, space, program_id)
create_account(accts, key, space) ==
    [accts EXCEPT ![key] = [owner |-> ProgramId, space |-> space, data |-> ZeroData]]

\* a new profile whose credit rating starts from the counters' default
new_profile_no_credit(user, username, bio, profile_image, cover_image, t) ==
    [is_initialized |-> TRUE, owner |-> user, username |-> Trunc(username),
     bio |-> Trunc(bio), profile_image |-> Trunc(profile_image),
     cover_image |-> Trunc(cover_image), created_at |-> t,
     followers_count |-> 0, following_count |-> 0,
     user_credit_rating |-> 0, posts_count |-> 0,
     last_post_timestamp |-> 0, daily_post_count |-> 0, is_verified |-> FALSE]

\* Profile { is_initialized: true, owner, ..., user_credit_rating: 100, ... }
new_profile(user, username, bio, profile_image, cover_image, t) ==
    [is_initialized |-> TRUE, owner |-> user, username |-> Trunc(username),
     bio |-> Trunc(bio), profile_image |-> Trunc(profile_image),
     cover_image |-> Trunc(cover_image), created_at |-> t,
     followers_count |-> 0, following_count |-> 0,
     user_credit_rating |-> INITIAL_UCR, posts_count |-> 0,
     last_post_timestamp |-> 0, daily_post_count |-> 0, is_verified |-> FALSE]

\* post counters that miss the increment of posts_count
count_post_daily_only(profile, t) ==
    LET daily == IF t - profile.last_post_timestamp > seconds_in_day
                 THEN 0 ELSE profile.daily_post_count
    IN [profile EXCEPT !.daily_post_count = daily + 1, !.last_post_timestamp = t]

\* post counters that start a new day at exactly one day's distance
count_post_reset_at_day(profile, t) ==
    LET daily == IF t - profile.last_post_timestamp >= seconds_in_day
                 THEN 0 ELSE profile.daily_post_count
    IN [profile EXCEPT !.posts_count = @ + 1,
                       !.daily_post_count = daily + 1,
                       !.last_post_timestamp = t]

\* the post counters of CreatePost: daily reset after a day, then both counts + 1
count_post(profile, t) ==
    LET daily == IF t - profile.last_post_timestamp > seconds_in_day
                 THEN 0 ELSE profile.daily_post_count
    IN [profile EXCEPT !.posts_count = @ + 1,
                       !.daily_post_count = daily + 1,
                       !.last_post_timestamp = t]

\* Post { is_initialized: true, id, author, content, timestamp, 0, 0, 0, images, None, false }
new_post(id, user, content, images, t) ==
    [is_initialized |-> TRUE, id |-> id, author |-> user, content |-> content,
     timestamp |-> t, likes |-> 0, comments |-> 0, mirrors |-> 0, images |-> images,
     rating |-> "None", in_kill_zone |-> FALSE]

\* a like that leaves the rating as it was stored
like_keeps_rating(post) == [post EXCEPT !.likes = @ + 1]

\* post.likes += 1; post.rating = from_likes(post.likes); post.in_kill_zone = post.likes < 0
like(post) ==
    LET likes == post.likes + 1 IN
    [post EXCEPT !.likes = likes, !.rating = from_likes(likes), !.in_kill_zone = (likes < 0)]

\* author_profile.user_credit_rating += 1
credit(profile) == [profile EXCEPT !.user_credit_rating = @ + 1]

\* a linkage check that accepts any author profile
any_author_matches(profile, post) == TRUE

\* the two linkage checks of LikePost
post_id_matches(post, post_id) == post.id = post_id
author_matches(profile, post) == profile.owner = post.author

\* the counters of CommentOnPost
count_comment_post(profile) == [profile EXCEPT !.posts_count = @ + 1]
count_comment(parent_post) == [parent_post EXCEPT !.comments = @ + 1]

\* the counters of FollowProfile and UnfollowProfile
add_follower(profile) == [profile EXCEPT !.followers_count = @ + 1]
add_following(profile) == [profile EXCEPT !.following_count = @ + 1]
\* a decrement without the guard against zero
drop_follower_unguarded(profile) == [profile EXCEPT !.followers_count = @ - 1]

drop_follower(profile) ==
    IF profile.followers_count > 0 THEN [profile EXCEPT !.followers_count = @ - 1] ELSE profile
drop_following(profile) ==
    IF profile.following_count > 0 THEN [profile EXCEPT !.following_count = @ - 1] ELSE profile

\* an address check that accepts whatever profile account is supplied
pda_matches_any(expected_pda, profile_account) == TRUE

\* expected_pda != *profile_account.key
pda_matches(expected_pda, profile_account) == expected_pda = profile_account

\* a provisioning that hands the account over before it has any space
provisioning_steps_assign_first(profile_account) ==
    <<Cpi("transfer", profile_account), Cpi("assign", profile_account),
      Cpi("allocate", profile_account)>>

\* the three invocations of the creation branch, in the order they are made
provisioning_steps(profile_account) ==
    <<Cpi("transfer", profile_account), Cpi("allocate", profile_account),
      Cpi("assign", profile_account)>>

process_create_profile(accts, ai, sg, env, username, bio, profile_image, cover_image) ==
    IF Len(ai) < 3 THEN Ret("NotEnoughAccountKeys", accts, <<>>)
    ELSE
    LET user_account == ai[1]
        profile_account == ai[2]
        system_program == ai[3]
    IN
    IF ~sg THEN Ret("MissingRequiredSignature", accts, <<>>)
    ELSE IF system_program # SystemProgramId THEN Ret("InvalidAccountData", accts, <<>>)
    ELSE IF StrLen(username) > 32 THEN Ret("Panic", accts, <<>>)
    ELSE IF ~pda_matches(find_program_address(user_account, username), profile_account)
         THEN Ret("InvalidArgument", accts, <<>>)
    ELSE
    LET create == accts[profile_account].owner # ProgramId
        log1 == SubSeq(provisioning_steps(profile_account), 1, 1)
        a2 == [accts EXCEPT ![profile_account].space = PROFILE_SPACE,
                            ![profile_account].data = ZeroData]
        log2 == SubSeq(provisioning_steps(profile_account), 1, 2)
        a3 == [a2 EXCEPT ![profile_account].owner = ProgramId]
        log3 == provisioning_steps(profile_account)
    IN
    IF create /\ env.cpi = 1 THEN Ret("SystemError", accts, <<>>)
    ELSE IF create /\ env.cpi = 2 THEN Ret("SystemError", accts, log1)
    ELSE IF create /\ env.cpi = 3 THEN Ret("SystemError", a2, log2)
    ELSE
    LET a4 == IF create THEN a3 ELSE accts
        log4 == IF create THEN log3 ELSE <<>>
        profile == new_profile(user_account, username, bio, profile_image, cover_image,
                               env.now)
        w == pack_profile_into_slice(profile, a4[profile_account])
    IN
    IF ~w.ok
    THEN Ret("InvalidAccountData", [a4 EXCEPT ![profile_account] = w.acct], log4)
    ELSE Ret("Ok", [a4 EXCEPT ![profile_account] = w.acct],
             Append(log4, Wrote("pack_profile", profile_account, profile)))

\* an ownership check that lets any signer through
profile_owned_by_anyone(profile, user_account) == TRUE

\* profile.owner != *user_account.key
profile_owned_by(profile, user_account) == profile.owner = user_account

\* an update that rebuilds the record and keeps only its identity
set_profile_fields_rebuilt(profile, bio, profile_image, cover_image) ==
    [ZeroProfile EXCEPT !.is_initialized = profile.is_initialized, !.owner = profile.owner,
                        !.username = profile.username, !.bio = bio,
                        !.profile_image = profile_image, !.cover_image = cover_image]

\* an update whose second assignment reads the stored cover image
set_profile_fields_stale_cover(profile, bio, profile_image, cover_image) ==
    [profile EXCEPT !.bio = bio, !.profile_image = profile.cover_image,
                    !.cover_image = cover_image]

\* profile.bio = bio; profile.profile_image = profile_image; profile.cover_image = cover_image
set_profile_fields(profile, bio, profile_image, cover_image) ==
    [profile EXCEPT !.bio = bio, !.profile_image = profile_image,
                    !.cover_image = cover_image]

process_update_profile(accts, ai, sg, env, bio, profile_image, cover_image) ==
    IF Len(ai) < 2 THEN Ret("NotEnoughAccountKeys", accts, <<>>)
    ELSE
    LET user_account == ai[1]
        profile_account == ai[2]
    IN
    IF ~sg THEN Ret("MissingRequiredSignature", accts, <<>>)
    ELSE IF accts[profile_account].owner # ProgramId THEN Ret("IncorrectProgramId", accts, <<>>)
    ELSE
    LET u == unpack_profile_from_slice(accts[profile_account]) IN
    IF ~u.ok THEN Ret("InvalidAccountData", accts, <<>>)
    ELSE IF ~profile_owned_by(u.v, user_account) THEN Ret("InvalidAccountData", accts, <<>>)
    ELSE
    LET profile == set_profile_fields(u.v, bio, profile_image, cover_image)
        w == pack_profile_into_slice(profile, accts[profile_account])
    IN
    IF ~w.ok
    THEN Ret("InvalidAccountData", [accts EXCEPT ![profile_account] = w.acct], <<>>)
    ELSE Ret("Ok", [accts EXCEPT ![profile_account] = w.acct],
             <<Wrote("pack_profile", profile_account, profile)>>)

process_create_post(accts, ai, sg, env, content, images) ==
    IF Len(ai) < 4 THEN Ret("NotEnoughAccountKeys", accts, <<>>)
    ELSE
    LET user_account == ai[1]
        post_account == ai[2]
        profile_account == ai[3]
    IN
    IF ~sg THEN Ret("MissingRequiredSignature", accts, <<>>)
    ELSE IF accts[profile_account].owner # ProgramId THEN Ret("IncorrectProgramId", accts, <<>>)
    ELSE
    LET u == unpack_profile_from_slice(accts[profile_account]) IN
    IF ~u.ok THEN Ret("InvalidAccountData", accts, <<>>)
    ELSE IF u.v.owner # user_account THEN Ret("InvalidAccountData", accts, <<>>)
    ELSE
    LET create == accts[post_account].owner # ProgramId IN
    IF create /\ create_account_fails(post_account, env) THEN Ret("SystemError", accts, <<>>)
    ELSE
    LET a1 == IF create THEN create_account(accts, post_account, POST_SPACE) ELSE accts
        log1 == IF create THEN <<Cpi("create_account", post_account)>> ELSE <<>>
        current_timestamp == env.now
        profile == count_post(u.v, current_timestamp)
        post == new_post(profile.posts_count, user_account, content, images,
                         current_timestamp)
        w1 == pack_post_into_slice(post, a1[post_account])
    IN
    IF ~w1.ok
    THEN Ret("InvalidAccountData", [a1 EXCEPT ![post_account] = w1.acct], log1)
    ELSE
    LET a2 == [a1 EXCEPT ![post_account] = w1.acct]
        log2 == Append(log1, Wrote("pack_post", post_account, post))
        w2 == pack_profile_into_slice(profile, a2[profile_account])
    IN
    IF ~w2.ok
    THEN Ret("InvalidAccountData", [a2 EXCEPT ![profile_account] = w2.acct], log2)
    ELSE Ret("Ok", [a2 EXCEPT ![profile_account] = w2.acct],
             Append(log2, Wrote("pack_profile", profile_account, profile)))

process_like_post(accts, ai, sg, env, post_id) ==
    IF Len(ai) < 3 THEN Ret("NotEnoughAccountKeys", accts, <<>>)
    ELSE
    LET post_account == ai[2]
        author_profile_account == ai[3]
    IN
    IF ~sg THEN Ret("MissingRequiredSignature", accts, <<>>)
    ELSE IF accts[post_account].owner # ProgramId THEN Ret("IncorrectProgramId", accts, <<>>)
    ELSE IF accts[author_profile_account].owner # ProgramId
         THEN Ret("IncorrectProgramId", accts, <<>>)
    ELSE
    LET up == unpack_post_from_slice(accts[post_account]) IN
    IF ~up.ok THEN Ret("InvalidAccountData", accts, <<>>)
    ELSE IF ~post_id_matches(up.v, post_id) THEN Ret("InvalidArgument", accts, <<>>)
    ELSE
    LET ua == unpack_profile_from_slice(accts[author_profile_account]) IN
    IF ~ua.ok THEN Ret("InvalidAccountData", accts, <<>>)
    ELSE IF ~author_matches(ua.v, up.v) THEN Ret("InvalidArgument", accts, <<>>)
    ELSE
    LET post == like(up.v)
        author_profile == credit(ua.v)
        w1 == pack_post_into_slice(post, accts[post_account])
    IN
    IF ~w1.ok
    THEN Ret("InvalidAccountData", [accts EXCEPT ![post_account] = w1.acct], <<>>)
    ELSE
    LET a1 == [accts EXCEPT ![post_account] = w1.acct]
        log1 == <<Wrote("pack_post", post_account, post)>>
        w2 == pack_profile_into_slice(author_profile, a1[author_profile_account])
    IN
    IF ~w2.ok
    THEN Ret("InvalidAccountData", [a1 EXCEPT ![author_profile_account] = w2.acct], log1)
    ELSE Ret("Ok", [a1 EXCEPT ![author_profile_account] = w2.acct],
             Append(log1, Wrote("pack_profile", author_profile_account, author_profile)))

process_comment(accts, ai, sg, env, content, parent_id) ==
    IF Len(ai) < 5 THEN Ret("NotEnoughAccountKeys", accts, <<>>)
    ELSE
    LET user_account == ai[1]
        comment_account == ai[2]
        parent_post_account == ai[3]
        user_profile_account == ai[4]
    IN
    IF ~sg THEN Ret("MissingRequiredSignature", accts, <<>>)
    ELSE IF accts[parent_post_account].owner # ProgramId
         THEN Ret("IncorrectProgramId", accts, <<>>)
    ELSE IF accts[user_profile_account].owner # ProgramId
         THEN Ret("IncorrectProgramId", accts, <<>>)
    ELSE
    LET up == unpack_post_from_slice(accts[parent_post_account]) IN
    IF ~up.ok THEN Ret("InvalidAccountData", accts, <<>>)
    ELSE IF up.v.id # parent_id THEN Ret("InvalidArgument", accts, <<>>)
    ELSE
    LET uu == unpack_profile_from_slice(accts[user_profile_account]) IN
    IF ~uu.ok THEN Ret("InvalidAccountData", accts, <<>>)
    ELSE IF uu.v.owner # user_account THEN Ret("InvalidArgument", accts, <<>>)
    ELSE
    LET create == accts[comment_account].owner # ProgramId IN
    IF create /\ create_account_fails(comment_account, env)
    THEN Ret("SystemError", accts, <<>>)
    ELSE
    LET a1 == IF create THEN create_account(accts, comment_account, COMMENT_SPACE) ELSE accts
        log1 == IF create THEN <<Cpi("create_account", comment_account)>> ELSE <<>>
        current_timestamp == env.now
        user_profile == count_comment_post(uu.v)
        parent_post == count_comment(up.v)
        comment == new_post(user_profile.posts_count, user_account, content, <<>>,
                            current_timestamp)
        w1 == pack_post_into_slice(comment, a1[comment_account])
    IN
    IF ~w1.ok
    THEN Ret("InvalidAccountData", [a1 EXCEPT ![comment_account] = w1.acct], log1)
    ELSE
    LET a2 == [a1 EXCEPT ![comment_account] = w1.acct]
        log2 == Append(log1, Wrote("pack_post", comment_account, comment))
        w2 == pack_post_into_slice(parent_post, a2[parent_post_account])
    IN
    IF ~w2.ok
    THEN Ret("InvalidAccountData", [a2 EXCEPT ![parent_post_account] = w2.acct], log2)
    ELSE
    LET a3 == [a2 EXCEPT ![parent_post_account] = w2.acct]
        log3 == Append(log2, Wrote("pack_post", parent_post_account, parent_post))
        w3 == pack_profile_into_slice(user_profile, a3[user_profile_account])
    IN
    IF ~w3.ok
    THEN Ret("InvalidAccountData", [a3 EXCEPT ![user_profile_account] = w3.acct], log3)
    ELSE Ret("Ok", [a3 EXCEPT ![user_profile_account] = w3.acct],
             Append(log3, Wrote("pack_profile", user_profile_account, user_profile)))

process_follow(accts, ai, sg, env, profile_id) ==
    IF Len(ai) < 3 THEN Ret("NotEnoughAccountKeys", accts, <<>>)
    ELSE
    LET follower_account == ai[1]
        followed_profile_account == ai[2]
        follower_profile_account == ai[3]
    IN
    IF ~sg THEN Ret("MissingRequiredSignature", accts, <<>>)
    ELSE IF accts[followed_profile_account].owner # ProgramId
         THEN Ret("IncorrectProgramId", accts, <<>>)
    ELSE IF accts[follower_profile_account].owner # ProgramId
         THEN Ret("IncorrectProgramId", accts, <<>>)
    ELSE IF followed_profile_account # profile_id THEN Ret("InvalidArgument", accts, <<>>)
    ELSE
    LET ud == unpack_profile_from_slice(accts[followed_profile_account]) IN
    IF ~ud.ok THEN Ret("InvalidAccountData", accts, <<>>)
    ELSE
    LET ur == unpack_profile_from_slice(accts[follower_profile_account]) IN
    IF ~ur.ok THEN Ret("InvalidAccountData", accts, <<>>)
    ELSE IF ur.v.owner # follower_account THEN Ret("InvalidArgument", accts, <<>>)
    ELSE
    LET followed_profile == add_follower(ud.v)
        follower_profile == add_following(ur.v)
        w1 == pack_profile_into_slice(followed_profile, accts[followed_profile_account])
    IN
    IF ~w1.ok
    THEN Ret("InvalidAccountData", [accts EXCEPT ![followed_profile_account] = w1.acct], <<>>)
    ELSE
    LET a1 == [accts EXCEPT ![followed_profile_account] = w1.acct]
        log1 == <<Wrote("pack_profile", followed_profile_account, followed_profile)>>
        w2 == pack_profile_into_slice(follower_profile, a1[follower_profile_account])
    IN
    IF ~w2.ok
    THEN Ret("InvalidAccountData", [a1 EXCEPT ![follower_profile_account] = w2.acct], log1)
    ELSE Ret("Ok", [a1 EXCEPT ![follower_profile_account] = w2.acct],
             Append(log1, Wrote("pack_profile", follower_profile_account, follower_profile)))

process_unfollow(accts, ai, sg, env, profile_id) ==
    IF Len(ai) < 3 THEN Ret("NotEnoughAccountKeys", accts, <<>>)
    ELSE
    LET follower_account == ai[1]
        followed_profile_account == ai[2]
        follower_profile_account == ai[3]
    IN
    IF ~sg THEN Ret("MissingRequiredSignature", accts, <<>>)
    ELSE IF accts[followed_profile_account].owner # ProgramId
         THEN Ret("IncorrectProgramId", accts, <<>>)
    ELSE IF accts[follower_profile_account].owner # ProgramId
         THEN Ret("IncorrectProgramId", accts, <<>>)
    ELSE IF followed_profile_account # profile_id THEN Ret("InvalidArgument", accts, <<>>)
    ELSE
    LET ud == unpack_profile_from_slice(accts[followed_profile_account]) IN
    IF ~ud.ok THEN Ret("InvalidAccountData", accts, <<>>)
    ELSE
    LET ur == unpack_profile_from_slice(accts[follower_profile_account]) IN
    IF ~ur.ok THEN Ret("InvalidAccountData", accts, <<>>)
    ELSE IF ur.v.owner # follower_account THEN Ret("InvalidArgument", accts, <<>>)
    ELSE
    LET followed_profile == drop_follower(ud.v)
        follower_profile == drop_following(ur.v)
        w1 == pack_profile_into_slice(followed_profile, accts[followed_profile_account])
    IN
    IF ~w1.ok
    THEN Ret("InvalidAccountData", [accts EXCEPT ![followed_profile_account] = w1.acct], <<>>)
    ELSE
    LET a1 == [accts EXCEPT ![followed_profile_account] = w1.acct]
        log1 == <<Wrote("pack_profile", followed_profile_account, followed_profile)>>
        w2 == pack_profile_into_slice(follower_profile, a1[follower_profile_account])
    IN
    IF ~w2.ok
    THEN Ret("InvalidAccountData", [a1 EXCEPT ![follower_profile_account] = w2.acct], log1)
    ELSE Ret("Ok", [a1 EXCEPT ![follower_profile_account] = w2.acct],
             Append(log1, Wrote("pack_profile", follower_profile_account, follower_profile)))

\* a test of the first two bytes only
starts_with_sb_two_bytes(name) == Len(name.t) >= 2 /\ SubSeq(name.t, 1, 2) = <<"s", "b">>

\* name.starts_with("sb/")
starts_with_sb(name) == Len(name.t) >= 3 /\ SubSeq(name.t, 1, 3) = <<"s", "b", "/">>

\* a community that does not count its owner as a member
new_community_no_member(owner, name, description, avatar, rules) ==
    [is_initialized |-> TRUE, id |-> 0, name |-> name, description |-> description,
     avatar |-> avatar, owner |-> owner, member_count |-> 0, rules |-> rules,
     is_sb_community |-> starts_with_sb(name)]

\* Community { is_initialized: true, id: 0, ..., member_count: 1, rules, is_sb_community }
new_community(owner, name, description, avatar, rules) ==
    [is_initialized |-> TRUE, id |-> 0, name |-> name, description |-> description,
     avatar |-> avatar, owner |-> owner, member_count |-> 1, rules |-> rules,
     is_sb_community |-> starts_with_sb(name)]

\* community.member_count += 1
add_member(community) == [community EXCEPT !.member_count = @ + 1]

process_create_community(accts, ai, sg, env, name, description, avatar, rules) ==
    IF Len(ai) < 3 THEN Ret("NotEnoughAccountKeys", accts, <<>>)
    ELSE
    LET owner_account == ai[1]
        community_account == ai[2]
    IN
    IF ~sg THEN Ret("MissingRequiredSignature", accts, <<>>)
    ELSE
    LET create == accts[community_account].owner # ProgramId IN
    IF create /\ create_account_fails(community_account, env)
    THEN Ret("SystemError", accts, <<>>)
    ELSE
    LET a1 == IF create THEN create_account(accts, community_account, COMMUNITY_SPACE)
              ELSE accts
        log1 == IF create THEN <<Cpi("create_account", community_account)>> ELSE <<>>
        community == new_community(owner_account, name, description, avatar, rules)
        w == pack_community_into_slice(community, a1[community_account])
    IN
    IF ~w.ok
    THEN Ret("InvalidAccountData", [a1 EXCEPT ![community_account] = w.acct], log1)
    ELSE Ret("Ok", [a1 EXCEPT ![community_account] = w.acct],
             Append(log1, Wrote("pack_community", community_account, community)))

\* a key check that lets every community account through
community_key_matches_any(community_account, community_id) == TRUE

\* *community_account.key != community_id
community_key_matches(community_account, community_id) == community_account = community_id

process_join_community(accts, ai, sg, env, community_id) ==
    IF Len(ai) < 2 THEN Ret("NotEnoughAccountKeys", accts, <<>>)
    ELSE
    LET community_account == ai[2] IN
    IF ~sg THEN Ret("MissingRequiredSignature", accts, <<>>)
    ELSE IF accts[community_account].owner # ProgramId
         THEN Ret("IncorrectProgramId", accts, <<>>)
    ELSE IF ~community_key_matches(community_account, community_id)
         THEN Ret("InvalidArgument", accts, <<>>)
    ELSE
    LET u == unpack_community_from_slice(accts[community_account]) IN
    IF ~u.ok THEN Ret("InvalidAccountData", accts, <<>>)
    ELSE
    LET community == add_member(u.v)
        w == pack_community_into_slice(community, accts[community_account])
    IN
    IF ~w.ok
    THEN Ret("InvalidAccountData", [accts EXCEPT ![community_account] = w.acct], <<>>)
    ELSE Ret("Ok", [accts EXCEPT ![community_account] = w.acct],
             <<Wrote("pack_community", community_account, community)>>)

\* Processor::process: decode the instruction and dispatch on its variant.
process(accts, ai, sg, env, ins) ==
    CASE ins.tag = "CreateProfile" ->
           process_create_profile(accts, ai, sg, env, ins.username, ins.bio,
                                  ins.profile_image, ins.cover_image)
      [] ins.tag = "UpdateProfile" ->
           process_update_profile(accts, ai, sg, env, ins.bio, ins.profile_image,
                                  ins.cover_image)
      [] ins.tag = "CreatePost" ->
           process_create_post(accts, ai, sg, env, ins.content, ins.images)
      [] ins.tag = "LikePost" ->
           process_like_post(accts, ai, sg, env, ins.post_id)
      [] ins.tag = "CommentOnPost" ->
           process_comment(accts, ai, sg, env, ins.content, ins.parent_id)
      [] ins.tag = "FollowProfile" ->
           process_follow(accts, ai, sg, env, ins.profile_id)
      [] ins.tag = "UnfollowProfile" ->
           process_unfollow(accts, ai, sg, env, ins.profile_id)
      [] ins.tag = "CreateCommunity" ->
           process_create_community(accts, ai, sg, env, ins.name, ins.description,
                                    ins.avatar, ins.rules)
      [] ins.tag = "JoinCommunity" ->
           IF Len(ai) < 1 THEN Ret("NotEnoughAccountKeys", accts, <<>>)
           ELSE process_join_community(accts, ai, sg, env, ai[1])
      [] OTHER -> Ret("InvalidInstructionData", accts, <<>>)

(***************************************************************************)
(* The state: the storage accounts, the ledger clock, the last instruction *)
(* the ledger committed (ins) with its account keys (ai), and the number   *)
(* of state changes so far.  An instruction that returns an error changes  *)
(* nothing: it is a stuttering step.                                       *)
(***************************************************************************)
VARIABLES accounts, now, ins, ai, steps

vars == <<accounts, now, ins, ai, steps>>

GENESIS == 1700000000

Unprovisioned == [owner |-> SystemProgramId, space |-> 0, data |-> ZeroData]

Init ==
    /\ accounts = [k \in Slots |-> Unprovisioned]
    /\ now = GENESIS
    /\ ins = [tag |-> "none"]
    /\ ai = <<>>
    /\ steps = 0

(***************************************************************************)
(* Inputs of the instructions.                                             *)
(***************************************************************************)
Hi == S(<<"h", "i">>)
Long == Pad(<<"l">>, 199)
TooLong == Pad(<<"l">>, 2099)
Img == S(<<"i", "m", "g">>)
SbName == S(<<"s", "b", "/", "x">>)
PlainName == S(<<"s", "b", "x">>)

\* The first account is a wallet or a keypair address; only those can sign.
Callers == Wallets \cup KeypairSlots

\* Account lists: the caller, n data accounts, then the tail; or too few accounts.
Lists1(users, tail) == {<<u, a>> \o tail : u \in users, a \in Slots}
Lists2(users, tail) == {<<u, a, b>> \o tail : u \in users, a \in Slots, b \in Slots}
Lists3(users, tail) ==
    {<<u, a, b, c>> \o tail : u \in users, a \in Slots, b \in Slots, c \in Slots}

\* The ids a caller may name for the record in account k: its stored id, or another.
IdChoices(accts, k) ==
    LET u == unpack_post_from_slice(accts[k]) IN
    IF u.ok THEN {u.v.id, u.v.id + 1} ELSE {0}

Env(cpi) == [now |-> now, cpi |-> cpi]

(***************************************************************************)
(* One instruction: run the processor; the ledger commits its writes when  *)
(* it returns Ok and discards them otherwise.                              *)
(***************************************************************************)
Do(i, a, sg, cpi) ==
    LET r == process(accounts, a, sg, Env(cpi), i) IN
    /\ r.res = "Ok"
    /\ accounts' = r.accounts
    /\ ins' = i
    /\ ai' = a
    /\ steps' = steps + 1
    /\ now' = now

CreateProfileIns ==
    {[tag |-> "CreateProfile", username |-> u, bio |-> s, profile_image |-> s,
      cover_image |-> s] : u \in Usernames \cup {Pad(<<"a">>, 32)}, s \in {Hi, Long}}

UpdateProfileIns ==
    {[tag |-> "UpdateProfile", bio |-> Hi, profile_image |-> Img, cover_image |-> Empty],
     [tag |-> "UpdateProfile", bio |-> Long, profile_image |-> Img, cover_image |-> Empty],
     [tag |-> "UpdateProfile", bio |-> Long, profile_image |-> Long, cover_image |-> Long]}

CreatePostIns ==
    {[tag |-> "CreatePost", content |-> c, images |-> <<Img>>] : c \in {Hi, TooLong}}

CreateCommunityIns ==
    {[tag |-> "CreateCommunity", name |-> n, description |-> Hi, avatar |-> Img,
      rules |-> <<Hi>>] : n \in {SbName, PlainName}}

CreateProfile ==
    \E a \in Lists1(Wallets, <<SystemProgramId>>), i \in CreateProfileIns :
        /\ steps < MaxSteps
        /\ Do(i, a, TRUE, 0)

UpdateProfile ==
    \E a \in Lists1(Wallets, <<>>), i \in UpdateProfileIns :
        /\ steps < MaxSteps
        /\ Do(i, a, TRUE, 0)

CreatePost ==
    \E a \in Lists2(Wallets, <<SystemProgramId>>), i \in CreatePostIns :
        /\ steps < MaxSteps
        /\ Do(i, a, TRUE, 0)

LikePost ==
    \E a \in Lists2(Wallets, <<>>) :
        \E post_id \in IdChoices(accounts, a[2]) :
            /\ steps < MaxSteps
            /\ Do([tag |-> "LikePost", post_id |-> post_id], a, TRUE, 0)

CommentOnPost ==
    \E a \in Lists3(Wallets, <<SystemProgramId>>) :
        \E parent_id \in IdChoices(accounts, a[3]) :
            /\ steps < MaxSteps
            /\ Do([tag |-> "CommentOnPost", content |-> Hi, parent_id |-> parent_id],
                  a, TRUE, 0)

FollowProfile ==
    \E a \in Lists2(Wallets, <<>>) :
        /\ steps < MaxSteps
        /\ Do([tag |-> "FollowProfile", profile_id |-> a[2]], a, TRUE, 0)

UnfollowProfile ==
    \E a \in Lists2(Wallets, <<>>) :
        /\ steps < MaxSteps
        /\ Do([tag |-> "UnfollowProfile", profile_id |-> a[2]], a, TRUE, 0)

CreateCommunity ==
    \E a \in Lists1(Wallets, <<SystemProgramId>>), i \in CreateCommunityIns :
        /\ steps < MaxSteps
        /\ Do(i, a, TRUE, 0)

JoinCommunity ==
    \E a \in Lists1(Callers, <<>>) :
        /\ steps < MaxSteps
        /\ Do([tag |-> "JoinCommunity", community_id |-> 0], a, TRUE, 0)

(***************************************************************************)
(* The environment: time passes, and a client pre-allocates a keypair      *)
(* address as a zero-filled account owned by the program.                  *)
(***************************************************************************)
Tick ==
    /\ steps < MaxSteps
    /\ now < GENESIS + MaxDays * seconds_in_day
    /\ \E d \in {seconds_in_day, seconds_in_day + 1} : now' = now + d
    /\ steps' = steps + 1
    /\ ins' = [tag |-> "Tick"]
    /\ ai' = <<>>
    /\ UNCHANGED accounts

Provision ==
    /\ steps < MaxSteps
    /\ \E k \in KeypairSlots :
        /\ accounts[k].owner # ProgramId
        /\ accounts' = create_account(accounts, k, POST_SPACE)
        /\ ai' = <<k>>
    /\ steps' = steps + 1
    /\ ins' = [tag |-> "Provision"]
    /\ UNCHANGED now

Next ==
    \/ CreateProfile
    \/ UpdateProfile
    \/ CreatePost
    \/ LikePost
    \/ CommentOnPost
    \/ FollowProfile
    \/ UnfollowProfile
    \/ CreateCommunity
    \/ JoinCommunity
    \/ Tick
    \/ Provision

Spec == Init /\ [][Next]_vars

(***************************************************************************)
(* The posting instructions alone, at a longer horizon: one profile, then  *)
(* any interleaving of CreatePost, CommentOnPost and LikePost on the       *)
(* keypair slots, by either wallet.                                        *)
(***************************************************************************)
MaxPostSteps == 8

PostsCreateProfile ==
    /\ steps = 0
    /\ Do([tag |-> "CreateProfile", username |-> UserA, bio |-> Hi, profile_image |-> Img,
           cover_image |-> Empty], <<"alice", "pa", SystemProgramId>>, TRUE, 0)

PostsProvision ==
    /\ steps \in 1..2
    /\ Provision

PostsCreatePost ==
    \E k \in KeypairSlots :
        /\ steps < MaxPostSteps
        /\ Do([tag |-> "CreatePost", content |-> Hi, images |-> <<Img>>],
              <<"alice", k, "pa", SystemProgramId>>, TRUE, 0)

PostsCommentOnPost ==
    \E k \in KeypairSlots, parent \in KeypairSlots :
        \E parent_id \in IdChoices(accounts, parent) :
            /\ steps < MaxPostSteps
            /\ Do([tag |-> "CommentOnPost", content |-> Hi, parent_id |-> parent_id],
                  <<"alice", k, parent, "pa", SystemProgramId>>, TRUE, 0)

PostsLikePost ==
    \E w \in Wallets, k \in KeypairSlots, p \in Slots :
        \E post_id \in IdChoices(accounts, k) :
            /\ steps < MaxPostSteps
            /\ Do([tag |-> "LikePost", post_id |-> post_id], <<w, k, p>>, TRUE, 0)

NextPosts ==
    \/ PostsCreateProfile
    \/ PostsProvision
    \/ PostsCreatePost
    \/ PostsCommentOnPost
    \/ PostsLikePost

SpecPosts == Init /\ [][NextPosts]_vars

(***************************************************************************)
(* What a slot holds.                                                      *)
(***************************************************************************)
HoldsProfile(acct) ==
    acct.owner = ProgramId /\ acct.data.kind = "profile" /\ acct.data.v.is_initialized
HoldsPost(acct) ==
    acct.owner = ProgramId /\ acct.data.kind = "post" /\ acct.data.v.is_initialized
HoldsCommunity(acct) ==
    acct.owner = ProgramId /\ acct.data.kind = "community" /\ acct.data.v.is_initialized

ProfileIn(acct) == unpack_profile_from_slice(acct).v
PostIn(acct) == unpack_post_from_slice(acct).v
CommunityIn(acct) == unpack_community_from_slice(acct).v

(***************************************************************************)
(* C1.  Every successful FollowProfile, whatever the two profile slots     *)
(* (the same slot included), adds exactly 1 to the followed profile's      *)
(* followers_count and exactly 1 to the follower profile's following_count.*)
(***************************************************************************)
C1_FollowAddsOneToEach ==
    [][ins'.tag = "FollowProfile" =>
        LET followed == ai'[2]
            follower == ai'[3]
        IN /\ ProfileIn(accounts'[followed]).followers_count
                = ProfileIn(accounts[followed]).followers_count + 1
           /\ ProfileIn(accounts'[follower]).following_count
                = ProfileIn(accounts[follower]).following_count + 1]_vars

(***************************************************************************)
(* C2.  JoinCommunity sent through the dispatcher by a signing wallet, on  *)
(* a program-owned slot that holds an initialized Community, succeeds and  *)
(* adds exactly 1 to that community's member_count.                        *)
(***************************************************************************)
C2_JoinSucceeds ==
    \A w \in Wallets, k \in Slots, id \in 0..1 :
        HoldsCommunity(accounts[k]) =>
            LET r == process(accounts, <<w, k>>, TRUE, Env(0),
                             [tag |-> "JoinCommunity", community_id |-> id])
            IN /\ r.res = "Ok"
               /\ CommunityIn(r.accounts[k]).member_count
                    = CommunityIn(accounts[k]).member_count + 1

(***************************************************************************)
(* The instructions a client can send in a state, accepted or not: every   *)
(* instruction with every account list, unsigned, with too few accounts,   *)
(* with a foreign system program, and with each invocation failing.        *)
(***************************************************************************)
AnyIns ==
    CreateProfileIns \cup UpdateProfileIns \cup CreatePostIns \cup CreateCommunityIns
    \cup {[tag |-> "LikePost", post_id |-> n] : n \in 0..2}
    \cup {[tag |-> "CommentOnPost", content |-> c, parent_id |-> n] :
            c \in {Hi, TooLong}, n \in 0..1}
    \cup {[tag |-> t, profile_id |-> k] : t \in {"FollowProfile", "UnfollowProfile"},
                                          k \in {"pa"}}
    \cup {[tag |-> "JoinCommunity", community_id |-> 0], [tag |-> "Unknown"]}

ListsOf(i) ==
    CASE i.tag \in {"CreateProfile", "CreateCommunity"} ->
            Lists1(Wallets, <<SystemProgramId>>) \cup {<<"alice", "pa", ProgramId>>}
      [] i.tag = "CreatePost" -> Lists2(Wallets, <<SystemProgramId>>)
      [] i.tag = "CommentOnPost" -> Lists3(Wallets, <<SystemProgramId>>)
      [] i.tag \in {"LikePost", "FollowProfile", "UnfollowProfile"} -> Lists2(Wallets, <<>>)
      [] OTHER -> Lists1(Callers, <<>>)

Creates(i) == i.tag \in {"CreateProfile", "CreatePost", "CommentOnPost", "CreateCommunity"}

\* the invocations of a handler: CreateProfile makes three, the others one
Invocations(i) == IF i.tag = "CreateProfile" THEN 1..3 ELSE IF Creates(i) THEN {1} ELSE {}

Attempts ==
    {[i |-> i, a |-> <<"alice">>, sg |-> TRUE, cpi |-> 0] : i \in AnyIns}
    \cup UNION {{[i |-> i, a |-> a, sg |-> TRUE, cpi |-> 0] : a \in ListsOf(i)} : i \in AnyIns}
    \cup UNION {{[i |-> i, a |-> a, sg |-> FALSE, cpi |-> 0] :
                    a \in {l \in ListsOf(i) : l[1] = "alice" /\ l[2] = "pa"}} : i \in AnyIns}
    \cup UNION {{[i |-> i, a |-> a, sg |-> TRUE, cpi |-> c] :
                    a \in {l \in ListsOf(i) : l[1] = "alice"}, c \in Invocations(i)} :
                i \in AnyIns}

\* the attempts are made in the states that at most AttemptDepth instructions reach
AttemptDepth == 3

Attempt(t) == process(accounts, t.a, t.sg, Env(t.cpi), t.i)

(***************************************************************************)
(* C3.  Whatever the instruction and its inputs, when the processor        *)
(* returns an error the record stored in every slot is the one stored      *)
(* before the instruction: no handler has written a record by the time a   *)
(* check or an encoding fails.                                             *)
(***************************************************************************)
C3_ErrorLeavesRecords ==
    steps <= AttemptDepth =>
    \A t \in Attempts :
        LET r == Attempt(t) IN
        r.res # "Ok" => \A k \in Slots : r.accounts[k].data = accounts[k].data

\* an encoding that does not fit fails after the handler has invoked create_account
C3_Witness ==
    /\ steps <= AttemptDepth
    /\ \E t \in Attempts :
        LET r == Attempt(t) IN
        /\ r.res = "InvalidAccountData"
        /\ r.log # <<>>
        /\ \E k \in Slots : HoldsPost(accounts[k])

(***************************************************************************)
(* C4.  The owner of an initialized Profile slot never changes: after any  *)
(* instruction, with any program-owned slot in any account position, the   *)
(* slot still decodes as a Profile with the owner it had.                  *)
(***************************************************************************)
C4_ProfileOwnerKept ==
    [][\A k \in Slots :
        HoldsProfile(accounts[k]) =>
            /\ unpack_profile_from_slice(accounts'[k]).ok
            /\ ProfileIn(accounts'[k]).owner = ProfileIn(accounts[k]).owner]_vars

(***************************************************************************)
(* C5.  Once a Post record is written to a slot its id and author never    *)
(* change: a later CreatePost or CommentOnPost naming that slot as its     *)
(* post or comment slot does not replace them.                             *)
(***************************************************************************)
C5_PostIdAuthorKept ==
    [][\A k \in Slots :
        HoldsPost(accounts[k]) =>
            /\ unpack_post_from_slice(accounts'[k]).ok
            /\ PostIn(accounts'[k]).id = PostIn(accounts[k]).id
            /\ PostIn(accounts'[k]).author = PostIn(accounts[k]).author]_vars

(***************************************************************************)
(* C6.  For a slot that holds an initialized profile before and after an   *)
(* instruction, posts_count does not decrease, and followers_count and     *)
(* following_count decrease only when the instruction is UnfollowProfile;  *)
(* a second CreateProfile on the slot lowers none of the three.            *)
(***************************************************************************)
C6_CountersKept ==
    [][\A k \in Slots :
        HoldsProfile(accounts[k]) /\ HoldsProfile(accounts'[k]) =>
            LET p == ProfileIn(accounts[k])
                q == ProfileIn(accounts'[k])
            IN /\ q.posts_count >= p.posts_count
               /\ ins'.tag # "UnfollowProfile" =>
                    /\ q.followers_count >= p.followers_count
                    /\ q.following_count >= p.following_count]_vars

C8_LikeAddsOne ==
    [][ins'.tag = "LikePost" =>
        LET post_account == ai'[2]
            author_profile_account == ai'[3]
        IN /\ PostIn(accounts'[post_account]).likes = PostIn(accounts[post_account]).likes + 1
           /\ ProfileIn(accounts'[author_profile_account]).user_credit_rating
                = ProfileIn(accounts[author_profile_account]).user_credit_rating + 1]_vars

(***************************************************************************)
(* C9.  A signed LikePost on two program-owned slots fails with            *)
(* InvalidArgument and changes no account when the post_id it carries is   *)
(* not the id of the stored post, or when the owner of the author profile  *)
(* it supplies is not the author of the stored post.                       *)
(***************************************************************************)
C9_LinkageMismatchRejected ==
    \A w \in Wallets, k \in Slots, p \in Slots, post_id \in 0..(MaxSteps + 1) :
        LET post == unpack_post_from_slice(accounts[k])
            profile == unpack_profile_from_slice(accounts[p])
            r == process(accounts, <<w, k, p>>, TRUE, Env(0),
                         [tag |-> "LikePost", post_id |-> post_id])
        IN accounts[k].owner = ProgramId /\ accounts[p].owner = ProgramId /\ post.ok
           /\ (\/ post.v.id # post_id
               \/ profile.ok /\ profile.v.owner # post.v.author)
           => r.res = "InvalidArgument" /\ r.accounts = accounts

\* a post whose id is named correctly, liked through a profile of somebody else
C9_Witness ==
    \E w \in Wallets, k \in Slots, p \in Slots :
        /\ HoldsPost(accounts[k])
        /\ HoldsProfile(accounts[p])
        /\ ProfileIn(accounts[p]).owner # PostIn(accounts[k]).author
        /\ process(accounts, <<w, k, p>>, TRUE, Env(0),
                   [tag |-> "LikePost", post_id |-> PostIn(accounts[k]).id]).res
             = "InvalidArgument"

(***************************************************************************)
(* C10.  A successful CreatePost adds exactly 1 to the profile's           *)
(* posts_count, sets its last_post_timestamp to the clock, and writes to   *)
(* the post slot an initialized Post with id = the new posts_count, author *)
(* = the signer, likes = comments = mirrors = 0 and rating None, which the *)
(* post slot holds afterwards when it is not also the profile slot.  The   *)
(* second CreatePost of a day on a fresh profile leaves daily_post_count = *)
(* 2 and posts_count = 2 and writes id 2.                                  *)
(***************************************************************************)
C10_CreatePostEffect ==
    [][ins'.tag = "CreatePost" =>
        LET user_account == ai'[1]
            post_account == ai'[2]
            profile_account == ai'[3]
            p == ProfileIn(accounts[profile_account])
            q == ProfileIn(accounts'[profile_account])
            log == process(accounts, ai', TRUE, Env(0), ins').log
            posts == {n \in DOMAIN log : log[n].op = "pack_post"}
        IN /\ q.posts_count = p.posts_count + 1
           /\ q.last_post_timestamp = now
           /\ Cardinality(posts) = 1
           /\ \A n \in posts :
                /\ log[n].key = post_account
                /\ log[n].v.is_initialized
                /\ log[n].v.id = q.posts_count
                /\ log[n].v.author = user_account
                /\ log[n].v.likes = 0 /\ log[n].v.comments = 0 /\ log[n].v.mirrors = 0
                /\ log[n].v.rating = "None"
                /\ post_account # profile_account =>
                     /\ HoldsPost(accounts'[post_account])
                     /\ PostIn(accounts'[post_account]) = log[n].v
                /\ (/\ p.posts_count = 1
                    /\ p.daily_post_count = 1
                    /\ now - p.last_post_timestamp <= seconds_in_day)
                   => /\ q.daily_post_count = 2
                      /\ q.posts_count = 2
                      /\ log[n].v.id = 2]_vars

\* the second post of a day on a fresh profile, each post in a slot of its own
C10_Witness ==
    /\ ins.tag = "CreatePost"
    /\ ai[2] # ai[3]
    /\ HoldsProfile(accounts[ai[3]])
    /\ ProfileIn(accounts[ai[3]]).daily_post_count = 2
    /\ ProfileIn(accounts[ai[3]]).posts_count = 2
    /\ HoldsPost(accounts[ai[2]])
    /\ PostIn(accounts[ai[2]]).id = 2
    /\ \E k \in Slots \ {ai[2]} : HoldsPost(accounts[k]) /\ PostIn(accounts[k]).id = 1

(***************************************************************************)
(* C11.  A successful CreateProfile leaves in the profile slot an          *)
(* initialized Profile whose owner is the signer, whose                    *)
(* user_credit_rating is 100, whose followers_count, following_count,      *)
(* posts_count, daily_post_count and last_post_timestamp are 0 and whose   *)
(* is_verified is FALSE.                                                   *)
(***************************************************************************)
C11_CreateProfileWrites ==
    [][ins'.tag = "CreateProfile" =>
        LET user_account == ai'[1]
            profile_account == ai'[2]
            q == ProfileIn(accounts'[profile_account])
        IN /\ HoldsProfile(accounts'[profile_account])
           /\ q.owner = user_account
           /\ q.user_credit_rating = 100
           /\ q.followers_count = 0 /\ q.following_count = 0 /\ q.posts_count = 0
           /\ q.daily_post_count = 0 /\ q.last_post_timestamp = 0
           /\ ~q.is_verified]_vars

\* a profile just created by bob while alice's profile has counted a post
C11_Witness ==
    /\ ins.tag = "CreateProfile"
    /\ ai[1] = "bob"
    /\ HoldsProfile(accounts[ai[2]])
    /\ ProfileIn(accounts[ai[2]]).owner = "bob"
    /\ \E k \in Slots : HoldsProfile(accounts[k]) /\ ProfileIn(accounts[k]).posts_count > 0

(***************************************************************************)
(* C12.  CreateProfile returns MissingRequiredSignature when the caller    *)
(* did not sign, and InvalidArgument when a signing caller supplies a      *)
(* profile account other than the address derived from the caller and the  *)
(* username; in both cases no transfer, allocate or assign is invoked and  *)
(* no account is changed.                                                  *)
(***************************************************************************)
C12_CreateProfileRejects ==
    \A w \in Wallets, k \in Slots, i \in CreateProfileIns :
        /\ \A sys \in {SystemProgramId, ProgramId} :
            LET r == process(accounts, <<w, k, sys>>, FALSE, Env(0), i) IN
            r.res = "MissingRequiredSignature" /\ r.log = <<>> /\ r.accounts = accounts
        /\ StrLen(i.username) <= 32 /\ find_program_address(w, i.username) # k =>
            LET r == process(accounts, <<w, k, SystemProgramId>>, TRUE, Env(0), i) IN
            r.res = "InvalidArgument" /\ r.log = <<>> /\ r.accounts = accounts

\* bob names alice's derived address, not yet provisioned, with alice's username
C12_Witness ==
    /\ accounts["pa"].owner # ProgramId
    /\ HoldsProfile(accounts["pb"])
    /\ find_program_address("alice", UserA) = "pa"
    /\ process(accounts, <<"bob", "pa", SystemProgramId>>, TRUE, Env(0),
               [tag |-> "CreateProfile", username |-> UserA, bio |-> Hi,
                profile_image |-> Hi, cover_image |-> Hi]).res = "InvalidArgument"

(***************************************************************************)
(* C13.  UpdateProfile signed by a wallet that is not the owner stored in  *)
(* the target slot fails and changes no account; so it does on a           *)
(* program-owned slot that holds no initialized profile.                   *)
(***************************************************************************)
C13_UpdateByStranger ==
    \A w \in Wallets, k \in Slots, i \in UpdateProfileIns :
        LET u == unpack_profile_from_slice(accounts[k])
            r == process(accounts, <<w, k>>, TRUE, Env(0), i)
        IN accounts[k].owner = ProgramId
           /\ (~HoldsProfile(accounts[k]) \/ u.v.owner # w)
           => r.res # "Ok" /\ r.accounts = accounts

\* a profile of alice that bob tries to update, next to a zero-filled slot
C13_Witness ==
    \E k \in Slots, z \in Slots :
        /\ HoldsProfile(accounts[k])
        /\ ProfileIn(accounts[k]).owner = "alice"
        /\ accounts[z].owner = ProgramId /\ accounts[z].data = ZeroData
        /\ \A j \in {k, z} :
            process(accounts, <<"bob", j>>, TRUE, Env(0),
                    [tag |-> "UpdateProfile", bio |-> Hi, profile_image |-> Img,
                     cover_image |-> Empty]).res = "InvalidAccountData"

(***************************************************************************)
(* C14.  A successful UpdateProfile sets bio, profile_image and            *)
(* cover_image of the target profile to the values it carries and leaves   *)
(* every other field of that profile, the slot's owner and size, and every *)
(* other slot as they were.                                                *)
(***************************************************************************)
C14_UpdateTouchesThreeFields ==
    [][ins'.tag = "UpdateProfile" =>
        LET profile_account == ai'[2]
            p == ProfileIn(accounts[profile_account])
            q == ProfileIn(accounts'[profile_account])
        IN /\ HoldsProfile(accounts[profile_account])
           /\ HoldsProfile(accounts'[profile_account])
           /\ q.bio = ins'.bio
           /\ q.profile_image = ins'.profile_image
           /\ q.cover_image = ins'.cover_image
           /\ \A f \in DOMAIN p \ {"bio", "profile_image", "cover_image"} : q[f] = p[f]
           /\ accounts'[profile_account].owner = accounts[profile_account].owner
           /\ accounts'[profile_account].space = accounts[profile_account].space
           /\ \A k \in Slots \ {profile_account} : accounts'[k] = accounts[k]]_vars

\* an update of a profile that has counted a post
C14_Witness ==
    /\ ins.tag = "UpdateProfile"
    /\ HoldsProfile(accounts[ai[2]])
    /\ ProfileIn(accounts[ai[2]]).posts_count = 1
    /\ ProfileIn(accounts[ai[2]]).bio = ins.bio
    /\ ProfileIn(accounts[ai[2]]).bio # ProfileIn(accounts[ai[2]]).cover_image

(***************************************************************************)
(* C15.  A FollowProfile immediately followed by an UnfollowProfile with   *)
(* the same caller and the same two slots succeeds and brings the followed *)
(* slot's followers_count and the follower slot's following_count back to  *)
(* what they were before the follow, also when the two slots are one.      *)
(* An UnfollowProfile succeeds wherever the follow would, and a counter    *)
(* that is 0 before it is 0 after it.                                      *)
(***************************************************************************)
C15_FollowThenUnfollow ==
    \A a \in Lists2(Wallets, <<>>) :
        LET followed == a[2]
            follower == a[3]
            Follow == [tag |-> "FollowProfile", profile_id |-> followed]
            Unfollow == [tag |-> "UnfollowProfile", profile_id |-> followed]
            f == process(accounts, a, TRUE, Env(0), Follow)
            u == process(f.accounts, a, TRUE, Env(0), Unfollow)
            u0 == process(accounts, a, TRUE, Env(0), Unfollow)
            followers(accts) == ProfileIn(accts[followed]).followers_count
            following(accts) == ProfileIn(accts[follower]).following_count
        IN /\ f.res = "Ok" =>
                /\ u.res = "Ok"
                /\ followers(u.accounts) = followers(accounts)
                /\ following(u.accounts) = following(accounts)
                /\ u0.res = "Ok"
           /\ u0.res = "Ok" =>
                /\ followers(accounts) = 0 => followers(u0.accounts) = 0
                /\ following(accounts) = 0 => following(u0.accounts) = 0

\* a profile with a follower that can follow itself, and a pair whose counters are 0
C15_Witness ==
    /\ \E a \in Lists2(Wallets, <<>>) :
        /\ a[2] = a[3]
        /\ HoldsProfile(accounts[a[2]])
        /\ ProfileIn(accounts[a[2]]).followers_count = 1
        /\ process(accounts, a, TRUE, Env(0),
                   [tag |-> "FollowProfile", profile_id |-> a[2]]).res = "Ok"
    /\ \E a \in Lists2(Wallets, <<>>) :
        /\ a[2] # a[3]
        /\ HoldsProfile(accounts[a[2]]) /\ HoldsProfile(accounts[a[3]])
        /\ ProfileIn(accounts[a[2]]).followers_count = 0
        /\ process(accounts, a, TRUE, Env(0),
                   [tag |-> "UnfollowProfile", profile_id |-> a[2]]).res = "Ok"

(***************************************************************************)
(* C16.  A successful CommentOnPost adds 1 to the commenter profile's      *)
(* posts_count and 1 to the parent post's comments, and afterwards the     *)
(* comment slot holds an initialized Post with id = the commenter's new    *)
(* posts_count, author = the signer, likes = 0 and no images, whichever    *)
(* slot is the comment slot, the parent post's slot included.              *)
(***************************************************************************)
C16_CommentEffect ==
    [][ins'.tag = "CommentOnPost" =>
        LET user_account == ai'[1]
            comment_account == ai'[2]
            parent_post_account == ai'[3]
            user_profile_account == ai'[4]
            c == PostIn(accounts'[comment_account])
        IN /\ ProfileIn(accounts'[user_profile_account]).posts_count
                = ProfileIn(accounts[user_profile_account]).posts_count + 1
           /\ PostIn(accounts'[parent_post_account]).comments
                = PostIn(accounts[parent_post_account]).comments + 1
           /\ HoldsPost(accounts'[comment_account])
           /\ c.id = ProfileIn(accounts'[user_profile_account]).posts_count
           /\ c.author = user_account
           /\ c.likes = 0
           /\ c.images = <<>>]_vars

(***************************************************************************)
(* C17.  In every state, every slot that holds an initialized Community    *)
(* has member_count >= 1.                                                  *)
(***************************************************************************)
C17_CommunityHasMember ==
    \A k \in Slots : HoldsCommunity(accounts[k]) => CommunityIn(accounts[k]).member_count >= 1

\* a community that somebody joined
C17_Witness ==
    /\ ins.tag = "JoinCommunity"
    /\ HoldsCommunity(accounts[ai[2]])
    /\ CommunityIn(accounts[ai[2]]).member_count = 2

(***************************************************************************)
(* C18.  The member_count of an initialized community never decreases: a   *)
(* slot that holds an initialized community before and after an            *)
(* instruction, a CreateCommunity naming it included, has at least the     *)
(* member_count it had.                                                    *)
(***************************************************************************)
C18_MemberCountKept ==
    [][\A k \in Slots :
        HoldsCommunity(accounts[k]) /\ HoldsCommunity(accounts'[k]) =>
            CommunityIn(accounts'[k]).member_count >= CommunityIn(accounts[k]).member_count]_vars

(***************************************************************************)
(* C19.  A successful CreateCommunity leaves in the community slot an      *)
(* initialized Community with owner = the signer, member_count = 1, the    *)
(* name, description, avatar and rules it carries, and is_sb_community     *)
(* true exactly when the name begins with "sb/"; and after every           *)
(* instruction the flag of every initialized community is that prefix test *)
(* on its stored name.                                                     *)
(***************************************************************************)
C19_CreateCommunityWrites ==
    [][LET BeginsWithSb(name) ==
               /\ Len(name.t) >= 3
               /\ name.t[1] = "s" /\ name.t[2] = "b" /\ name.t[3] = "/"
       IN /\ ins'.tag = "CreateCommunity" =>
               LET c == CommunityIn(accounts'[ai'[2]]) IN
               /\ HoldsCommunity(accounts'[ai'[2]])
               /\ c.owner = ai'[1]
               /\ c.member_count = 1
               /\ c.name = ins'.name
               /\ c.description = ins'.description
               /\ c.avatar = ins'.avatar
               /\ c.rules = ins'.rules
               /\ c.is_sb_community <=> BeginsWithSb(ins'.name)
          /\ \A k \in Slots :
               HoldsCommunity(accounts'[k]) =>
                   (CommunityIn(accounts'[k]).is_sb_community
                      <=> BeginsWithSb(CommunityIn(accounts'[k]).name))]_vars

\* a sub-community that was joined, next to a community that is not one
C19_Witness ==
    \E k \in Slots, j \in Slots :
        /\ HoldsCommunity(accounts[k]) /\ HoldsCommunity(accounts[j])
        /\ CommunityIn(accounts[k]).is_sb_community
        /\ CommunityIn(accounts[k]).name = SbName
        /\ CommunityIn(accounts[k]).member_count = 2
        /\ ~CommunityIn(accounts[j]).is_sb_community

(***************************************************************************)
(* C20.  An instruction that reads an existing record (UpdateProfile,      *)
(* CreatePost's profile, LikePost's post and author profile,               *)
(* CommentOnPost's parent post and commenter profile, the two profiles of  *)
(* Follow and Unfollow, JoinCommunity's community) fails when the slot it  *)
(* is given for that record is owned by the program but all zero; so only  *)
(* the create instructions write to such a slot.                           *)
(***************************************************************************)
Blank(acct) == acct.owner = ProgramId /\ acct.data = ZeroData

\* the accounts a handler decodes an existing record from
ReadSlots(i, a) ==
    CASE i.tag \in {"UpdateProfile", "JoinCommunity"} /\ Len(a) >= 2 -> {a[2]}
      [] i.tag = "CreatePost" /\ Len(a) >= 3 -> {a[3]}
      [] i.tag \in {"LikePost", "FollowProfile", "UnfollowProfile"} /\ Len(a) >= 3 ->
            {a[2], a[3]}
      [] i.tag = "CommentOnPost" /\ Len(a) >= 4 -> {a[3], a[4]}
      [] OTHER -> {}

C20_BlankRecordRejected ==
    steps <= AttemptDepth =>
    \A t \in Attempts :
        LET r == Attempt(t) IN
        /\ (\E k \in ReadSlots(t.i, t.a) : Blank(accounts[k])) => r.res # "Ok"
        /\ ~Creates(t.i) /\ r.res = "Ok" =>
             \A k \in Slots : Blank(accounts[k]) => r.accounts[k] = accounts[k]

(***************************************************************************)
(* PostRating::from_likes on its own: two like counts are drawn from the   *)
(* thresholds of the match and their neighbours, and the function is       *)
(* applied to both.                                                        *)
(***************************************************************************)
TierSpread == 1

\* the literals of the match arms of from_likes
TierThresholds == {5, 20, 50, 150, 500, 1000, 1000000}

TierLikes == {0} \cup UNION {{b - d, b + d} : b \in TierThresholds, d \in 0..TierSpread}

InitTier ==
    /\ accounts = [k \in Slots |-> Unprovisioned]
    /\ now = GENESIS
    /\ \E l \in TierLikes, m \in TierLikes : ins = [tag |-> "likes", likes |-> l, more |-> m]
    /\ ai = <<>>
    /\ steps = 0

RateLikes ==
    /\ ins.tag = "likes"
    /\ ins' = [tag |-> "from_likes", likes |-> ins.likes, more |-> ins.more,
               rating |-> from_likes(ins.likes), more_rating |-> from_likes(ins.more)]
    /\ steps' = steps + 1
    /\ UNCHANGED <<accounts, now, ai>>

NextTier == RateLikes

SpecTier == InitTier /\ [][NextTier]_vars

\* the position of a rating in the enum PostRating
RatingRank(rating) == CHOOSE n \in 1..Len(RatingNames) : RatingNames[n] = rating

(***************************************************************************)
(* C21.  from_likes gives None below 5 likes, Bronze for 5..19, Silver for *)
(* 20..49, Gold for 50..149, Platinum for 150..499, Diamond for 500..999,  *)
(* Ace for 1000..999999 and Conqueror from 1000000 on, and a larger like   *)
(* count never gets a lower tier.                                          *)
(***************************************************************************)
C21_TierTable ==
    ins.tag = "from_likes" =>
        LET l == ins.likes IN
        /\ l < 5 => ins.rating = "None"
        /\ l \in 5..19 => ins.rating = "Bronze"
        /\ l \in 20..49 => ins.rating = "Silver"
        /\ l \in 50..149 => ins.rating = "Gold"
        /\ l \in 150..499 => ins.rating = "Platinum"
        /\ l \in 500..999 => ins.rating = "Diamond"
        /\ l \in 1000..999999 => ins.rating = "Ace"
        /\ l >= 1000000 => ins.rating = "Conqueror"
        /\ l <= ins.more => RatingRank(ins.rating) <= RatingRank(ins.more_rating)

\* the last Ace and the first Conqueror
C21_Witness ==
    /\ ins.tag = "from_likes"
    /\ ins.likes = 999999 /\ ins.rating = "Ace"
    /\ ins.more = 1000000 /\ ins.more_rating = "Conqueror"

(***************************************************************************)
(* C22.  An UpdateProfile that succeeds, applied once more with the same   *)
(* signer, profile slot and three strings, succeeds again and leaves every *)
(* slot exactly as the first application left it.                          *)
(***************************************************************************)
C22_UpdateTwiceIsOnce ==
    \A user_account \in Wallets, profile_account \in Slots, i \in UpdateProfileIns :
        LET a == <<user_account, profile_account>>
            once == process(accounts, a, TRUE, Env(0), i)
            twice == process(once.accounts, a, TRUE, Env(0), i)
        IN once.res = "Ok" => twice.res = "Ok" /\ twice.accounts = once.accounts

\* an update that changed all three strings of a profile, and can be repeated
C22_Witness ==
    /\ ins.tag = "UpdateProfile"
    /\ ins.bio = Long
    /\ HoldsProfile(accounts[ai[2]])
    /\ ProfileIn(accounts[ai[2]]).bio = Long
    /\ ProfileIn(accounts[ai[2]]).username = UserA
    /\ process(accounts, ai, TRUE, Env(0), ins).res = "Ok"
    /\ process(accounts, ai, TRUE, Env(0), ins).accounts = accounts

(***************************************************************************)
(* C23.  The user_credit_rating of a profile that is initialized before    *)
(* and after an instruction changes only in a LikePost, and then by +1:    *)
(* FollowProfile, UnfollowProfile, UpdateProfile, CreatePost,              *)
(* CommentOnPost, CreateCommunity and JoinCommunity leave it as it was,    *)
(* and so does every other instruction that is not a LikePost.             *)
(***************************************************************************)
C23_CreditOnlyByLike ==
    [][\A k \in Slots :
        HoldsProfile(accounts[k]) /\ HoldsProfile(accounts'[k]) =>
            LET before == ProfileIn(accounts[k]).user_credit_rating
                after == ProfileIn(accounts'[k]).user_credit_rating
            IN \/ after = before
               \/ ins'.tag = "LikePost" /\ after = before + 1]_vars

(***************************************************************************)
(* C24.  A CreateProfile that passes its signer, system program and        *)
(* address checks on a profile account not owned by the program invokes    *)
(* transfer, then allocate (512 bytes), then assign, stops at the first    *)
(* invocation that fails, and writes the Profile only after the assign;    *)
(* on an account the program already owns it invokes none of the three.    *)
(***************************************************************************)
C24_ProvisioningOrder ==
    \A user_account \in Wallets, profile_account \in PdaSlots, i \in CreateProfileIns,
       failing \in 0..3 :
        LET r == process(accounts, <<user_account, profile_account, SystemProgramId>>, TRUE,
                         Env(failing), i)
            IsStep(e) == e.op \in {"transfer", "allocate", "assign"}
            invoked == SelectSeq(r.log, IsStep)
            three == <<[op |-> "transfer", key |-> profile_account],
                       [op |-> "allocate", key |-> profile_account],
                       [op |-> "assign", key |-> profile_account]>>
        IN StrLen(i.username) <= 32
           /\ find_program_address(user_account, i.username) = profile_account
           => IF accounts[profile_account].owner = ProgramId
              THEN invoked = <<>>
              ELSE /\ invoked = SubSeq(three, 1, IF failing = 0 THEN 3 ELSE failing - 1)
                   /\ failing # 0 => r.res # "Ok" /\ r.log = invoked
                   /\ failing \in {0, 3} => r.accounts[profile_account].space = 512
                   /\ failing = 0 => r.accounts[profile_account].owner = ProgramId
                   /\ \A n \in 1..Len(r.log) :
                        ~IsStep(r.log[n]) => n = 4 /\ SubSeq(r.log, 1, 3) = three

\* alice's profile was provisioned and written; bob's account is still to be provisioned,
\* and his CreateProfile stops after the transfer when the allocate fails
C24_Witness ==
    /\ ins.tag = "CreateProfile" /\ ai[2] = "pa"
    /\ HoldsProfile(accounts["pa"])
    /\ accounts["pb"].owner # ProgramId
    /\ LET r == process(accounts, <<"bob", "pb", SystemProgramId>>, TRUE, Env(2),
                        [tag |-> "CreateProfile", username |-> UserB, bio |-> Hi,
                         profile_image |-> Hi, cover_image |-> Hi])
       IN r.res = "SystemError" /\ Len(r.log) = 1 /\ r.log[1].op = "transfer"

(***************************************************************************)
(* C25.  A successful CreatePost leaves daily_post_count at 1 when the     *)
(* clock is more than 86400 seconds past the profile's                     *)
(* last_post_timestamp, and at the old count plus 1 when it is 86400       *)
(* seconds or less past it.                                                *)
(***************************************************************************)
C25_DailyReset ==
    [][ins'.tag = "CreatePost" =>
        LET profile_account == ai'[3]
            before == ProfileIn(accounts[profile_account])
            after == ProfileIn(accounts'[profile_account])
            elapsed == now - before.last_post_timestamp
        IN /\ elapsed > 86400 => after.daily_post_count = 1
           /\ elapsed <= 86400 => after.daily_post_count = before.daily_post_count + 1]_vars

\* a second post exactly 86400 seconds after the first
C25_Witness ==
    /\ ins.tag = "CreatePost"
    /\ now = GENESIS + 86400
    /\ HoldsProfile(accounts[ai[3]])
    /\ ProfileIn(accounts[ai[3]]).last_post_timestamp = now
    /\ ProfileIn(accounts[ai[3]]).posts_count = 2
    /\ ProfileIn(accounts[ai[3]]).daily_post_count = 2

(***************************************************************************)
(* C26.  In every state, the username, bio, profile_image and cover_image  *)
(* of every initialized profile are at most 128 bytes long.                *)
(***************************************************************************)
C26_ProfileStringsBounded ==
    \A k \in Slots :
        HoldsProfile(accounts[k]) =>
            LET p == ProfileIn(accounts[k]) IN
            /\ StrLen(p.username) <= 128
            /\ StrLen(p.bio) <= 128
            /\ StrLen(p.profile_image) <= 128
            /\ StrLen(p.cover_image) <= 128

(***************************************************************************)
(* C27.  The ids issued from one profile slot are distinct and increasing: *)
(* the id a successful CreatePost or CommentOnPost issues (the profile's   *)
(* new posts_count) is greater than the id of every post or comment record *)
(* already created from that profile.  A wallet has one profile slot here, *)
(* so the records created from the profile are those whose author is the   *)
(* signer.                                                                 *)
(***************************************************************************)
C27_IdsIncrease ==
    [][ins'.tag \in {"CreatePost", "CommentOnPost"} =>
        LET user_account == ai'[1]
            profile_account == IF ins'.tag = "CreatePost" THEN ai'[3] ELSE ai'[4]
            issued == ProfileIn(accounts'[profile_account]).posts_count
        IN \A k \in Slots :
             HoldsPost(accounts[k]) /\ PostIn(accounts[k]).author = user_account =>
                 PostIn(accounts[k]).id < issued]_vars

(***************************************************************************)
(* C28.  In every state the followers_count of all initialized profiles    *)
(* together equals their following_count together.                         *)
(***************************************************************************)
RECURSIVE TotalOf(_, _, _)
\* the sum of one counter over the initialized profiles held in the given slots
TotalOf(accts, counter, keys) ==
    IF keys = {} THEN 0
    ELSE LET k == CHOOSE x \in keys : TRUE
         IN (IF HoldsProfile(accts[k]) THEN ProfileIn(accts[k])[counter] ELSE 0)
              + TotalOf(accts, counter, keys \ {k})

C28_FollowTotalsEqual ==
    TotalOf(accounts, "followers_count", Slots) = TotalOf(accounts, "following_count", Slots)

(***************************************************************************)
(* C29.  After a successful CreatePost the profile's daily_post_count is   *)
(* at most the number of successful CreatePost instructions on that        *)
(* profile in the 86400 seconds that end at the clock of this one.  Three  *)
(* posts are made from the current state, the first more than a day after  *)
(* every earlier instruction, so that the posts in the window are among    *)
(* these three.                                                            *)
(***************************************************************************)
\* the seconds that pass between two posts
PostGaps == {seconds_in_day \div 2 + 1, seconds_in_day, seconds_in_day + 1}

\* CreatePost{content, images} run with Clock::get() returning t
CreatePostAt(accts, a, t) ==
    process(accts, a, TRUE, [now |-> t, cpi |-> 0],
            [tag |-> "CreatePost", content |-> Hi, images |-> <<Img>>])

C29_DailyCountInWindow ==
    \A user_account \in Wallets, profile_account \in PdaSlots, d1 \in PostGaps,
       d2 \in PostGaps :
        LET t1 == now + 86400 + 1
            t2 == t1 + d1
            t3 == t2 + d2
            first == CreatePostAt(accounts,
                         <<user_account, "k1", profile_account, SystemProgramId>>, t1)
            second == CreatePostAt(first.accounts,
                         <<user_account, "k2", profile_account, SystemProgramId>>, t2)
            third == CreatePostAt(second.accounts,
                         <<user_account, "k1", profile_account, SystemProgramId>>, t3)
            InWindow(posts, t) == Cardinality({p \in posts : t - p <= 86400})
        IN first.res = "Ok" /\ second.res = "Ok" /\ third.res = "Ok" =>
            /\ ProfileIn(first.accounts[profile_account]).daily_post_count
                 <= InWindow({t1}, t1)
            /\ ProfileIn(second.accounts[profile_account]).daily_post_count
                 <= InWindow({t1, t2}, t2)
            /\ ProfileIn(third.accounts[profile_account]).daily_post_count
                 <= InWindow({t1, t2, t3}, t3)

(***************************************************************************)
(* C30.  JoinCommunity gives the same result, the same accounts and the    *)
(* same writes whatever community_id the instruction carries; what it      *)
(* compares is the key of the second account with the key of the first: a  *)
(* signed join on a program-owned second account returns InvalidArgument   *)
(* when the two keys differ, and passes the check when they are equal.     *)
(***************************************************************************)
\* values of the community_id field of the instruction
CommunityIds == 0..1

C30_JoinIgnoresCommunityId ==
    \A first \in Callers, community_account \in Slots, sg \in BOOLEAN :
        LET Join(a, id) == process(accounts, a, sg, Env(0),
                                   [tag |-> "JoinCommunity", community_id |-> id])
            a == <<first, community_account>>
            r == Join(a, 0)
            short == Join(<<first>>, 0)
        IN /\ \A id \in CommunityIds \ {0} : Join(a, id) = r /\ Join(<<first>>, id) = short
           /\ sg /\ accounts[community_account].owner = ProgramId =>
                IF first = community_account
                THEN r.res # "InvalidArgument"
                ELSE r.res = "InvalidArgument" /\ r.accounts = accounts

\* a join that passed the key check, and a wallet's join of the same community that does not
C30_Witness ==
    /\ ins.tag = "JoinCommunity"
    /\ ai[1] = ai[2]
    /\ HoldsCommunity(accounts[ai[2]])
    /\ CommunityIn(accounts[ai[2]]).member_count = 2
    /\ \A id \in CommunityIds :
         /\ process(accounts, ai, TRUE, Env(0),
                    [tag |-> "JoinCommunity", community_id |-> id]).res = "Ok"
         /\ process(accounts, <<"alice", ai[2]>>, TRUE, Env(0),
                    [tag |-> "JoinCommunity", community_id |-> id]).res = "InvalidArgument"

====
